---- MODULE Spec2Model ----
(***************************************************************************)
(* ONNX frontend, Reduce* operator translators (op/reduce.cpp).            *)
(*                                                                         *)
(* A translator takes the view of one ONNX node and builds OpenVINO nodes. *)
(* The state is the node being translated, the IR nodes that exist (the    *)
(* producers of the node's inputs first, then every node a translator has  *)
(* constructed, in construction order), the translator that ran, how it    *)
(* ended and the OutputVector it returned.                                 *)
(***************************************************************************)
EXTENDS Integers, Sequences, FiniteSets, TLC

VARIABLES node, graph, op, status, outputs

vars == <<node, graph, op, status, outputs>>

----------------------------------------------------------------------------
(* Bounds of the explored node views *)

MaxRank == 2        \* largest static rank of the data input
MaxAxes == 3        \* longest `axes` attribute
MaxAxesRank == 2    \* largest rank of the shape of the axes input

AxisVals == {-1, 0, 1, 2}   \* values an `axes` attribute entry takes
DimVals == {-1, 0, 1, 2}    \* dimensions of the axes input; -1 is a dynamic dimension
DataDims == {-1, 2}         \* dimensions of the data input; -1 is a dynamic dimension

ElementTypes == {"u32", "u64", "i32", "i64", "f16", "f32", "f64", "bf16", "boolean", "i8"}

SeqsUpTo(S, n) == UNION {[1..k -> S] : k \in 0..n}

----------------------------------------------------------------------------
(* Values, node pointers and IR nodes *)

\* std::shared_ptr<ov::Node>: the position of the node in graph; 0 is nullptr
NullPtr == 0

\* ov::Output<ov::Node>: a node and the index of one of its outputs
Value(n, i) == [node |-> n, idx |-> i]

\* Output::get_node_shared_ptr(): the producing node, the output index is dropped
get_node_shared_ptr(v) == v.node

\* ov::Output<ov::Node> built from a std::shared_ptr<ov::Node> (the braces of
\* every `return {make_ov_reduction_op(...)}` and the arguments of make_shared):
\* the node's default output, output 0
DefaultOutput(ptr) == Value(ptr, 0)

\* an IR node: operation, arguments, element type; shape and data for a
\* Constant; keep_dims for a reduction
MkNode(kind, args, et) ==
    [kind |-> kind, args |-> args, et |-> et, shape |-> <<>>, data |-> <<>>, keep_dims |-> FALSE]

\* v0::Constant::create(type, shape, values)
Constant_create(et, shape, data) ==
    [kind |-> "Constant", args |-> <<>>, et |-> et, shape |-> shape, data |-> data, keep_dims |-> FALSE]

\* the node that produces an input of the ONNX node
Producer(et) == MkNode("Producer", <<>>, et)

\* Output::get_element_type()
get_element_type(g, v) == g[v.node].et

\* PartialShape: rank().is_static() and the dimensions (-1 is dynamic)
DynamicRank == [rank_static |-> FALSE, dims |-> <<>>]

StaticRank(dims) == [rank_static |-> TRUE, dims |-> dims]

\* PartialShape::is_static()
is_static(ps) == ps.rank_static /\ \A i \in 1..Len(ps.dims) : ps.dims[i] >= 0

\* Rank::get_length()
get_length(ps) == Len(ps.dims)

ReduceKinds == {"ReduceSum", "ReduceMean", "ReduceMin", "ReduceMax", "ReduceProd", "ReduceL1", "ReduceL2"}

----------------------------------------------------------------------------
(* The ONNX node view *)

\* Node::get_ov_inputs().size() > 1
has_axes_input(n) == Len(n.inputs) > 1

\* a result of a helper that may throw: how it ended, the node it returned
\* and the IR nodes that exist afterwards
Ret(st, ptr, g) == [status |-> st, ptr |-> ptr, g |-> g]

\* position of the node appended last
Last(g) == Len(g)

----------------------------------------------------------------------------
(* utils/common.hpp and identity.hpp *)

\* common::get_monotonic_range<int64_t>(n): 0, 1, ..., n-1
get_monotonic_range(r) == [i \in 1..r |-> i - 1]

\* set_1::identity(node): the node's inputs, unchanged
identity(n) == n.inputs

----------------------------------------------------------------------------
(* op/reduce.cpp, anonymous namespace *)

get_dynamic_all_axes_range(n, g) ==
    LET input == n.inputs[1]
        g1 == Append(g, MkNode("ShapeOf", <<input>>, "i64"))
        shape_of_input == Last(g1)
        g2 == Append(g1, Constant_create("i32", <<1>>, <<0>>))
        scalar == Last(g2)
        g3 == Append(g2, MkNode("ShapeOf", <<DefaultOutput(shape_of_input)>>, "i64"))
        rank_of_input == Last(g3)
        g4 == Append(g3, MkNode("Squeeze", <<DefaultOutput(rank_of_input), DefaultOutput(scalar)>>, "i64"))
        rank_of_input_scalar == Last(g4)
        g5 == Append(g4, Constant_create("i32", <<>>, <<0>>))
        start == Last(g5)
        g6 == Append(g5, Constant_create("i32", <<>>, <<1>>))
        step == Last(g6)
        g7 == Append(g6, MkNode("Range",
                                <<DefaultOutput(start), DefaultOutput(rank_of_input_scalar), DefaultOutput(step)>>,
                                "i64"))
    IN  Ret("ok", Last(g7), g7)

\* variant: only the rank of the axes shape is required to be static
get_reduction_axes_from_input_RankOnly(n, g) ==
    LET noop_with_empty_axes == n.noop_with_empty_axes
        reduction_axes == n.inputs[2]
        reduction_axes_shape == n.pshapes[2]
    IN  IF has_axes_input(n) /\ ~reduction_axes_shape.rank_static
        THEN Ret("NonStaticAxesShape", NullPtr, g)
        ELSE IF has_axes_input(n)
                /\ get_length(reduction_axes_shape) # 0
                /\ reduction_axes_shape.dims # <<0>>
        THEN Ret("ok", get_node_shared_ptr(reduction_axes), g)
        ELSE IF noop_with_empty_axes # 0
        THEN Ret("ok", NullPtr, g)
        ELSE get_dynamic_all_axes_range(n, g)

\* variant: noop_with_empty_axes is tested before the axes input is looked at
get_reduction_axes_from_input_NoopFirst(n, g) ==
    LET noop_with_empty_axes == n.noop_with_empty_axes
        reduction_axes == n.inputs[2]
        reduction_axes_shape == n.pshapes[2]
    IN  IF has_axes_input(n) /\ ~is_static(reduction_axes_shape)
        THEN Ret("NonStaticAxesShape", NullPtr, g)
        ELSE IF noop_with_empty_axes # 0
        THEN Ret("ok", NullPtr, g)
        ELSE IF has_axes_input(n)
                /\ get_length(reduction_axes_shape) # 0
                /\ reduction_axes_shape.dims # <<0>>
        THEN Ret("ok", get_node_shared_ptr(reduction_axes), g)
        ELSE get_dynamic_all_axes_range(n, g)

get_reduction_axes_from_input(n, g) ==
    LET noop_with_empty_axes == n.noop_with_empty_axes
        reduction_axes == n.inputs[2]
        reduction_axes_shape == n.pshapes[2]
    IN  IF has_axes_input(n) /\ ~is_static(reduction_axes_shape)
        THEN Ret("NonStaticAxesShape", NullPtr, g)
        ELSE IF has_axes_input(n)
                /\ get_length(reduction_axes_shape) # 0
                /\ reduction_axes_shape.dims # <<0>>
        THEN Ret("ok", get_node_shared_ptr(reduction_axes), g)
        ELSE IF noop_with_empty_axes # 0
        THEN Ret("ok", NullPtr, g)
        ELSE get_dynamic_all_axes_range(n, g)

\* variant: an empty attribute always gives the run-time range
get_reduction_axes_from_attr_NoStaticRange(n, g) ==
    LET input_rank == n.pshapes[1]
        reduction_axes == n.axes
    IN  IF n.axes = <<>>
        THEN get_dynamic_all_axes_range(n, g)
        ELSE IF input_rank.rank_static /\ ~(Len(reduction_axes) <= get_length(input_rank))
        THEN Ret("AxesRankTooLarge", NullPtr, g)
        ELSE LET g1 == Append(g, Constant_create("i64", <<Len(reduction_axes)>>, reduction_axes))
             IN  Ret("ok", Last(g1), g1)

\* variant: the count is compared with < instead of <=
get_reduction_axes_from_attr_StrictCount(n, g) ==
    LET input_rank == n.pshapes[1]
        reduction_axes == IF n.axes = <<>> /\ input_rank.rank_static
                          THEN get_monotonic_range(get_length(input_rank))
                          ELSE n.axes
    IN  IF n.axes = <<>> /\ ~input_rank.rank_static
        THEN get_dynamic_all_axes_range(n, g)
        ELSE IF input_rank.rank_static /\ ~(Len(reduction_axes) < get_length(input_rank))
        THEN Ret("AxesRankTooLarge", NullPtr, g)
        ELSE LET g1 == Append(g, Constant_create("i64", <<Len(reduction_axes)>>, reduction_axes))
             IN  Ret("ok", Last(g1), g1)

\* variant: an unknown rank gives the run-time range whatever the attribute
get_reduction_axes_from_attr_UnknownRankDiscards(n, g) ==
    LET input_rank == n.pshapes[1]
        reduction_axes == IF n.axes = <<>> /\ input_rank.rank_static
                          THEN get_monotonic_range(get_length(input_rank))
                          ELSE n.axes
    IN  IF ~input_rank.rank_static
        THEN get_dynamic_all_axes_range(n, g)
        ELSE IF ~(Len(reduction_axes) <= get_length(input_rank))
        THEN Ret("AxesRankTooLarge", NullPtr, g)
        ELSE LET g1 == Append(g, Constant_create("i64", <<Len(reduction_axes)>>, reduction_axes))
             IN  Ret("ok", Last(g1), g1)

\* variant: negative axes are normalised by the rank before the constant is made
get_reduction_axes_from_attr_Normalised(n, g) ==
    LET input_rank == n.pshapes[1]
        given == IF n.axes = <<>> /\ input_rank.rank_static
                 THEN get_monotonic_range(get_length(input_rank))
                 ELSE n.axes
        reduction_axes == [i \in 1..Len(given) |->
                              IF given[i] < 0 /\ input_rank.rank_static
                              THEN given[i] + get_length(input_rank)
                              ELSE given[i]]
    IN  IF n.axes = <<>> /\ ~input_rank.rank_static
        THEN get_dynamic_all_axes_range(n, g)
        ELSE IF input_rank.rank_static /\ ~(Len(reduction_axes) <= get_length(input_rank))
        THEN Ret("AxesRankTooLarge", NullPtr, g)
        ELSE LET g1 == Append(g, Constant_create("i64", <<Len(reduction_axes)>>, reduction_axes))
             IN  Ret("ok", Last(g1), g1)

get_reduction_axes_from_attr(n, g) ==
    LET input_rank == n.pshapes[1]
        reduction_axes == IF n.axes = <<>> /\ input_rank.rank_static
                          THEN get_monotonic_range(get_length(input_rank))
                          ELSE n.axes
    IN  IF n.axes = <<>> /\ ~input_rank.rank_static
        THEN get_dynamic_all_axes_range(n, g)
        ELSE IF input_rank.rank_static /\ ~(Len(reduction_axes) <= get_length(input_rank))
        THEN Ret("AxesRankTooLarge", NullPtr, g)
        ELSE LET g1 == Append(g, Constant_create("i64", <<Len(reduction_axes)>>, reduction_axes))
             IN  Ret("ok", Last(g1), g1)

supported_types_v1 == {"u32", "u64", "i32", "i64", "f16", "f32", "f64"}

\* variant: the later set is the early set
supported_types_v2_NoBf16 == {"u32", "u64", "i32", "i64", "f16", "f32", "f64"}

supported_types_v2 == {"u32", "u64", "i32", "i64", "f16", "f32", "f64", "bf16"}

\* the requirement of the Reduce* operations on constant axes: with a data
\* input of static rank r every axis lies in [-r, r-1]
axes_in_range(n, g, axes) ==
    LET r == get_length(n.pshapes[1])
    IN  (g[axes].kind = "Constant" /\ n.pshapes[1].rank_static)
            => \A i \in 1..Len(g[axes].data) : g[axes].data[i] >= 0 - r /\ g[axes].data[i] <= r - 1

\* std::make_shared<OpType>(ov_input, reduction_axes, keep_dims)
make_reduction(OpType, n, g, ov_input, reduction_axes, keep_dims) ==
    IF ~axes_in_range(n, g, reduction_axes)
    THEN Ret("AxisOutOfRange", NullPtr, g)
    ELSE LET g1 == Append(g, [kind |-> OpType,
                              args |-> <<ov_input, DefaultOutput(reduction_axes)>>,
                              et |-> get_element_type(g, ov_input),
                              shape |-> <<>>, data |-> <<>>,
                              keep_dims |-> keep_dims])
         IN  Ret("ok", Last(g1), g1)

make_ov_reduction_op(OpType, n, g, ov_input, supported_types, axes_as_attr) ==
    LET keepdims == n.keepdims
    IN  IF get_element_type(g, ov_input) \notin supported_types
        THEN Ret("UnsupportedType", NullPtr, g)
        ELSE LET a == IF axes_as_attr THEN get_reduction_axes_from_attr(n, g)
                                      ELSE get_reduction_axes_from_input(n, g)
             IN  IF a.status # "ok"
                 THEN a
                 ELSE IF a.ptr # NullPtr
                 THEN make_reduction(OpType, n, a.g, ov_input, a.ptr, keepdims # 0)
                 ELSE Ret("ok", get_node_shared_ptr(identity(n)[1]), a.g)

\* `return {ptr};`: the OutputVector of a translator, nothing when it threw
Returned(r) ==
    [status |-> r.status,
     outputs |-> IF r.status = "ok" THEN <<DefaultOutput(r.ptr)>> ELSE <<>>,
     g |-> r.g]

\* std::make_shared<v0::Log>(sum_node) over the result of the reduction
WithLog(r) ==
    IF r.status # "ok"
    THEN r
    ELSE LET sum_node == DefaultOutput(r.ptr)
             g1 == Append(r.g, MkNode("Log", <<sum_node>>, get_element_type(r.g, sum_node)))
         IN  Ret("ok", Last(g1), g1)

----------------------------------------------------------------------------
(* namespace set_1 *)

reduce_log_sum(n, g) ==
    Returned(WithLog(make_ov_reduction_op("ReduceSum", n, g, n.inputs[1], supported_types_v1, TRUE)))

\* variant: the reduction is taken over the input instead of over Exp(input)
reduce_log_sum_exp_SumOfInput(n, g) ==
    LET g1 == Append(g, MkNode("Exp", <<n.inputs[1]>>, get_element_type(g, n.inputs[1])))
        exp_node == DefaultOutput(Last(g1))
    IN  Returned(WithLog(make_ov_reduction_op("ReduceSum", n, g1, n.inputs[1], supported_types_v1, TRUE)))

reduce_log_sum_exp(n, g) ==
    LET g1 == Append(g, MkNode("Exp", <<n.inputs[1]>>, get_element_type(g, n.inputs[1])))
        exp_node == DefaultOutput(Last(g1))
    IN  Returned(WithLog(make_ov_reduction_op("ReduceSum", n, g1, exp_node, supported_types_v1, TRUE)))

reduce_l1(n, g) ==
    Returned(make_ov_reduction_op("ReduceL1", n, g, n.inputs[1], supported_types_v1, TRUE))

reduce_l2(n, g) ==
    Returned(make_ov_reduction_op("ReduceL2", n, g, n.inputs[1], supported_types_v1, TRUE))

reduce_max(n, g) ==
    Returned(make_ov_reduction_op("ReduceMax", n, g, n.inputs[1], supported_types_v1, TRUE))

reduce_mean(n, g) ==
    Returned(make_ov_reduction_op("ReduceMean", n, g, n.inputs[1], supported_types_v1, TRUE))

reduce_min(n, g) ==
    Returned(make_ov_reduction_op("ReduceMin", n, g, n.inputs[1], supported_types_v1, TRUE))

reduce_prod(n, g) ==
    Returned(make_ov_reduction_op("ReduceProd", n, g, n.inputs[1], supported_types_v1, TRUE))

reduce_sum(n, g) ==
    Returned(make_ov_reduction_op("ReduceSum", n, g, n.inputs[1], supported_types_v1, TRUE))

reduce_sum_square(n, g) ==
    LET input == n.inputs[1]
        g1 == Append(g, MkNode("Multiply", <<input, input>>, get_element_type(g, input)))
        square_node == DefaultOutput(Last(g1))
    IN  Returned(make_ov_reduction_op("ReduceSum", n, g1, square_node, supported_types_v1, TRUE))

(* namespace set_13 *)

set_13_reduce_sum(n, g) ==
    Returned(make_ov_reduction_op("ReduceSum", n, g, n.inputs[1], supported_types_v2, FALSE))

----------------------------------------------------------------------------
(* The state machine: a node view is handed to one translator *)

DataShapes == {DynamicRank} \cup {StaticRank([i \in 1..r |-> d]) : r \in 0..MaxRank, d \in DataDims}

AxesShapes == {DynamicRank} \cup {StaticRank(s) : s \in SeqsUpTo(DimVals, MaxAxesRank)}

\* a node with one input: the `axes` attribute may be set
AttrNode(ps, idx, ax, kd, noop) ==
    [inputs |-> <<Value(1, idx)>>, pshapes |-> <<ps>>,
     axes |-> ax, keepdims |-> kd, noop_with_empty_axes |-> noop]

\* a node with an axes input of shape as
InputNode(ps, idx, as, kd, noop) ==
    [inputs |-> <<Value(1, idx), Value(2, 0)>>, pshapes |-> <<ps, as>>,
     axes |-> <<>>, keepdims |-> kd, noop_with_empty_axes |-> noop]

Init ==
    /\ op = "none"
    /\ status = "none"
    /\ outputs = <<>>
    /\ \E et \in ElementTypes, ps \in DataShapes, idx \in {0, 1}, kd \in {0, 1}, noop \in {0, 1} :
          \/ \E ax \in SeqsUpTo(AxisVals, MaxAxes) :
                /\ (ax = <<>> \/ noop = 0)
                /\ node = AttrNode(ps, idx, ax, kd, noop)
                /\ graph = <<Producer(et)>>
          \/ \E as \in AxesShapes :
                /\ node = InputNode(ps, idx, as, kd, noop)
                /\ graph = <<Producer(et), Producer("i64")>>

\* the importer calls the translator registered for the node and keeps what it returns
Finish(name, r) ==
    /\ op = "none"
    /\ op' = name
    /\ status' = r.status
    /\ outputs' = r.outputs
    /\ graph' = r.g
    /\ UNCHANGED node

ReduceLogSum == Finish("reduce_log_sum", reduce_log_sum(node, graph))

ReduceLogSumExp == Finish("reduce_log_sum_exp", reduce_log_sum_exp(node, graph))

ReduceL1 == Finish("reduce_l1", reduce_l1(node, graph))

ReduceL2 == Finish("reduce_l2", reduce_l2(node, graph))

ReduceMax == Finish("reduce_max", reduce_max(node, graph))

ReduceMean == Finish("reduce_mean", reduce_mean(node, graph))

ReduceMin == Finish("reduce_min", reduce_min(node, graph))

ReduceProd == Finish("reduce_prod", reduce_prod(node, graph))

ReduceSum == Finish("reduce_sum", reduce_sum(node, graph))

ReduceSumSquare == Finish("reduce_sum_square", reduce_sum_square(node, graph))

ReduceSum13 == Finish("set_13_reduce_sum", set_13_reduce_sum(node, graph))

Next ==
    \/ ReduceLogSum
    \/ ReduceLogSumExp
    \/ ReduceL1
    \/ ReduceL2
    \/ ReduceMax
    \/ ReduceMean
    \/ ReduceMin
    \/ ReduceProd
    \/ ReduceSum
    \/ ReduceSumSquare
    \/ ReduceSum13

Spec == Init /\ [][Next]_vars

----------------------------------------------------------------------------
(* Vocabulary of the properties *)

EarlyOps == {"reduce_sum", "reduce_mean", "reduce_min", "reduce_max", "reduce_prod", "reduce_l1",
             "reduce_l2", "reduce_log_sum", "reduce_log_sum_exp", "reduce_sum_square"}

LaterOp == "set_13_reduce_sum"

\* element type of the node's first input
InputType == graph[1].et

\* rank of the node's first input
RankKnown == node.pshapes[1].rank_static

InputRank == Len(node.pshapes[1].dims)

\* the IR nodes that existed before the translator ran: the producers of the inputs
NumProducers == Len(node.inputs)

Producers == SubSeq(graph, 1, NumProducers)

NothingConstructed == Len(graph) = NumProducers

\* positions of the reduction nodes
Reductions == {i \in DOMAIN graph : graph[i].kind \in ReduceKinds}

\* the node whose output is the axes argument of reduction i
AxesOf(i) == graph[graph[i].args[2].node]

\* the dataflow above a value, free of positions (a producer keeps its own)
RECURSIVE Term(_, _)
Term(g, v) ==
    LET nd == g[v.node]
    IN  [kind |-> nd.kind, idx |-> v.idx, et |-> nd.et, shape |-> nd.shape, data |-> nd.data,
         keep_dims |-> nd.keep_dims,
         pos |-> IF nd.kind = "Producer" THEN v.node ELSE 0,
         args |-> [k \in 1..Len(nd.args) |-> Term(g, nd.args[k])]]

\* t is the run-time range [0, rank) with step 1 over shape-of(shape-of(x)) squeezed to a scalar
IsDynamicRange(t, x) ==
    /\ t.kind = "Range"
    /\ Len(t.args) = 3
    /\ t.args[1].kind = "Constant" /\ t.args[1].data = <<0>> /\ t.args[1].shape = <<>>
    /\ t.args[3].kind = "Constant" /\ t.args[3].data = <<1>> /\ t.args[3].shape = <<>>
    /\ t.args[2].kind = "Squeeze"
    /\ t.args[2].args[1].kind = "ShapeOf"
    /\ t.args[2].args[1].args[1].kind = "ShapeOf"
    /\ t.args[2].args[1].args[1].args[1] = x

\* the second input supplies no axes
AxesAbsent ==
    \/ ~has_axes_input(node)
    \/ /\ is_static(node.pshapes[2])
       /\ (node.pshapes[2].dims = <<>> \/ node.pshapes[2].dims = <<0>>)

----------------------------------------------------------------------------
\* C1: an early-era translator given an empty `axes` attribute, an input of
\* static rank r and a supported element type succeeds, and the axes of its
\* reduction are the i64 constant [0, 1, ..., r-1] of length r.
C1_EmptyAxesAreMonotonicRange ==
    (op \in EarlyOps /\ node.axes = <<>> /\ RankKnown /\ InputType \in supported_types_v1)
        => /\ status = "ok"
           /\ Cardinality(Reductions) = 1
           /\ \A i \in Reductions :
                 /\ AxesOf(i).kind = "Constant"
                 /\ AxesOf(i).et = "i64"
                 /\ AxesOf(i).shape = <<InputRank>>
                 /\ Len(AxesOf(i).data) = InputRank
                 /\ \A k \in 1..InputRank : AxesOf(i).data[k] = k - 1

C1_Witness ==
    /\ op = "reduce_l2" /\ status = "ok" /\ node.axes = <<>>
    /\ RankKnown /\ InputRank = 2
    /\ \E i \in Reductions : AxesOf(i).data = <<0, 1>>

----------------------------------------------------------------------------
\* C2 as written: later-era reduce_sum with a second input of non-static
\* shape always fails with NonStaticAxesShape and produces nothing.
C2_AlwaysNonStaticAxesShape ==
    (op = LaterOp /\ has_axes_input(node) /\ ~is_static(node.pshapes[2]))
        => /\ status = "NonStaticAxesShape"
           /\ Reductions = {}
           /\ outputs = <<>>

\* C2 amended: later-era reduce_sum with an input of a supported element type
\* and a second input of non-static shape fails with NonStaticAxesShape, for
\* every noop_with_empty_axes and keepdims, and constructs and returns nothing.
C2_NonStaticAxesShapeWhenTypeSupported ==
    (op = LaterOp /\ has_axes_input(node) /\ ~is_static(node.pshapes[2])
        /\ InputType \in {"u32", "u64", "i32", "i64", "f16", "f32", "f64", "bf16"})
        => /\ status = "NonStaticAxesShape"
           /\ NothingConstructed
           /\ outputs = <<>>

C2_Witness ==
    /\ op = LaterOp /\ status = "NonStaticAxesShape"
    /\ has_axes_input(node) /\ node.pshapes[2] = StaticRank(<<-1>>)
    /\ node.noop_with_empty_axes = 1 /\ node.keepdims = 0

----------------------------------------------------------------------------
\* C3: later-era reduce_sum with noop_with_empty_axes set and no axes
\* supplied returns the node's own first input value and constructs nothing.
C3_NoopReturnsFirstInput ==
    (op = LaterOp /\ status = "ok" /\ node.noop_with_empty_axes # 0 /\ AxesAbsent)
        => /\ outputs = <<node.inputs[1]>>
           /\ NothingConstructed

----------------------------------------------------------------------------
\* C4: an early-era translator given an input of static rank r and a
\* supported element type fails with AxesRankTooLarge exactly when the
\* `axes` attribute is non-empty and has more than r entries.
C4_AxesRankTooLargeIffCountExceedsRank ==
    (op \in EarlyOps /\ RankKnown /\ InputType \in supported_types_v1)
        => (status = "AxesRankTooLarge" <=> (node.axes # <<>> /\ Len(node.axes) > InputRank))

C4_Witness ==
    /\ op = "reduce_mean" /\ status = "AxesRankTooLarge"
    /\ RankKnown /\ InputRank = 2 /\ node.axes = <<0, 1, 2>>

----------------------------------------------------------------------------
\* C5: a translator given an input of an unsupported element type fails with
\* UnsupportedType and has constructed no IR node when it fails.
C5_UnsupportedTypeBeforeAnyNode ==
    (/\ op # "none"
     /\ (op \in EarlyOps => InputType \notin supported_types_v1)
     /\ (op = LaterOp => InputType \notin supported_types_v2))
        => /\ status = "UnsupportedType"
           /\ NothingConstructed

----------------------------------------------------------------------------
\* C6: an early-era translator passes type validation exactly for u32, u64,
\* i32, i64, f16, f32, f64; later-era reduce_sum exactly for these and bf16.
C6_AcceptedTypesAreTheEraSet ==
    /\ op \in EarlyOps
          => (status # "UnsupportedType" <=> InputType \in {"u32", "u64", "i32", "i64", "f16", "f32", "f64"})
    /\ op = LaterOp
          => (status # "UnsupportedType"
                <=> InputType \in {"u32", "u64", "i32", "i64", "f16", "f32", "f64", "bf16"})
    /\ supported_types_v1 \subseteq supported_types_v2
    /\ supported_types_v2 \ supported_types_v1 = {"bf16"}

C6_Witness ==
    /\ op = LaterOp /\ InputType = "bf16" /\ status = "ok"

----------------------------------------------------------------------------
\* what early-era reduce_sum builds for the same node
SumOfNode == reduce_sum(node, Producers)

SumTerm == Term(SumOfNode.g, SumOfNode.outputs[1])

ResultTerm == Term(graph, outputs[1])

FirstInputTerm == Term(Producers, node.inputs[1])

\* C7: reduce_log_sum is Log over reduce_sum of the input, reduce_log_sum_exp
\* is Log over reduce_sum of Exp of the input, reduce_sum_square is reduce_sum
\* of Multiply(input, input); axes and keepdims are those reduce_sum uses for
\* the node, Exp is constructed first and Log last, one value is returned.
C7_CompositesAreReduceSumOverPreprocessedInput ==
    (op \in {"reduce_log_sum", "reduce_log_sum_exp", "reduce_sum_square"})
        => /\ status = SumOfNode.status
           /\ status = "ok" =>
                /\ Len(outputs) = 1
                /\ op = "reduce_log_sum" =>
                      /\ ResultTerm.kind = "Log"
                      /\ ResultTerm.args = <<SumTerm>>
                /\ op = "reduce_log_sum_exp" =>
                      /\ ResultTerm.kind = "Log"
                      /\ Len(ResultTerm.args) = 1
                      /\ ResultTerm.args[1].args[1].kind = "Exp"
                      /\ ResultTerm.args[1].args[1].args = <<FirstInputTerm>>
                      /\ ResultTerm.args[1] = [SumTerm EXCEPT !.args[1] = ResultTerm.args[1].args[1]]
                      /\ graph[NumProducers + 1].kind = "Exp"
                      /\ graph[Len(graph)].kind = "Log"
                      /\ outputs[1].node = Len(graph)
                /\ op = "reduce_sum_square" =>
                      /\ ResultTerm.args[1].kind = "Multiply"
                      /\ ResultTerm.args[1].args = <<FirstInputTerm, FirstInputTerm>>
                      /\ ResultTerm = [SumTerm EXCEPT !.args[1] = ResultTerm.args[1]]

C7_Witness ==
    /\ op = "reduce_log_sum_exp" /\ status = "ok"
    /\ node.axes = <<1, 0>> /\ node.keepdims = 0
    /\ Cardinality(Reductions) = 1

----------------------------------------------------------------------------
\* C8: when later-era reduce_sum resolves the axes and builds its result:
\* without axes and without the flag the axes are the run-time range over
\* the first input; without axes and with the flag nothing is built;
\* otherwise the axes are the producing node of the second input itself,
\* whatever the flag.
C8_AxesFromInputOutcome ==
    (op = LaterOp /\ status = "ok")
        => /\ has_axes_input(node) => is_static(node.pshapes[2])
           /\ (AxesAbsent /\ node.noop_with_empty_axes = 0) =>
                 /\ Cardinality(Reductions) = 1
                 /\ Len(graph) = NumProducers + 8
                 /\ IsDynamicRange(ResultTerm.args[2], FirstInputTerm)
           /\ (AxesAbsent /\ node.noop_with_empty_axes # 0) =>
                 /\ Reductions = {}
                 /\ NothingConstructed
           /\ ~AxesAbsent =>
                 /\ Reductions = {NumProducers + 1}
                 /\ Len(graph) = NumProducers + 1
                 /\ graph[NumProducers + 1].args[2].node = node.inputs[2].node

C8_Witness ==
    /\ op = LaterOp /\ status = "ok"
    /\ has_axes_input(node) /\ node.pshapes[2] = StaticRank(<<2>>)
    /\ node.noop_with_empty_axes = 1
    /\ Reductions # {}

----------------------------------------------------------------------------
\* C9 as written: an early-era translator given an input of unknown rank
\* resolves the axes to the run-time range [0, rank), whether the `axes`
\* attribute is empty or not.
C9_UnknownRankAlwaysDynamicRange ==
    (op \in EarlyOps /\ ~RankKnown /\ status = "ok")
        => \A i \in Reductions : IsDynamicRange(Term(graph, graph[i].args[2]), FirstInputTerm)

\* C9 amended: an early-era translator given an input of unknown rank and a
\* supported element type succeeds; the axes are the run-time range
\* [0, rank) when the `axes` attribute is empty, and the constant equal to
\* the attribute, of any length, when it is not; AxesRankTooLarge is never
\* raised for an input of unknown rank.
C9_UnknownRankKeepsAttributeAxes ==
    (op \in EarlyOps /\ ~RankKnown)
        => /\ status # "AxesRankTooLarge"
           /\ InputType \in {"u32", "u64", "i32", "i64", "f16", "f32", "f64"} =>
                 /\ status = "ok"
                 /\ Cardinality(Reductions) = 1
                 /\ \A i \in Reductions :
                       /\ node.axes = <<>> => IsDynamicRange(Term(graph, graph[i].args[2]), FirstInputTerm)
                       /\ node.axes # <<>> =>
                             /\ AxesOf(i).kind = "Constant"
                             /\ AxesOf(i).data = node.axes
                             /\ AxesOf(i).shape = <<Len(node.axes)>>

C9_Witness ==
    /\ op = "reduce_prod" /\ status = "ok" /\ ~RankKnown
    /\ node.axes = <<2, 0, 2>>
    /\ \E i \in Reductions : AxesOf(i).data = <<2, 0, 2>>

----------------------------------------------------------------------------
\* C10 as written: an early-era translator given a non-empty `axes` attribute
\* with at most r entries, r the static rank, succeeds whatever the values,
\* and the axes constant equals the attribute.
C10_AnyAxisValuePasses ==
    (op \in EarlyOps /\ RankKnown /\ node.axes # <<>> /\ Len(node.axes) <= InputRank
        /\ InputType \in supported_types_v1)
        => /\ status = "ok"
           /\ \A i \in Reductions : AxesOf(i).data = node.axes

\* C10 amended: in that case the translator itself checks only the count: it
\* always constructs the i64 constant equal to the attribute, element for
\* element, and never raises AxesRankTooLarge; negative and duplicated axes
\* within [-r, r-1] reach the reduction unchanged and translation succeeds;
\* an axis outside [-r, r-1] is refused by the reduction operation, which
\* requires that range, and translation fails there.
C10_CountCheckedValuesLeftToReduction ==
    (op \in EarlyOps /\ RankKnown /\ node.axes # <<>> /\ Len(node.axes) <= InputRank
        /\ InputType \in {"u32", "u64", "i32", "i64", "f16", "f32", "f64"})
        => /\ status \in {"ok", "AxisOutOfRange"}
           /\ \E c \in DOMAIN graph :
                 /\ graph[c].kind = "Constant"
                 /\ graph[c].et = "i64"
                 /\ graph[c].shape = <<Len(node.axes)>>
                 /\ graph[c].data = node.axes
                 /\ status = "ok" => (Reductions # {} /\ \A i \in Reductions : graph[i].args[2] = Value(c, 0))
           /\ status = "ok"
                 <=> \A k \in 1..Len(node.axes) :
                        node.axes[k] >= 0 - InputRank /\ node.axes[k] <= InputRank - 1

C10_Witness ==
    /\ op = "reduce_max" /\ status = "ok"
    /\ RankKnown /\ InputRank = 2 /\ node.axes = <<-1, -1>>
    /\ \E i \in Reductions : AxesOf(i).data = <<-1, -1>>

====
